---- MODULE Spec2Model ----
(***************************************************************************)
(* State-machine model of the ISL29125 RGB light sensor driver             *)
(* (ISL29125/ISL29125.h), of the device registers it talks to, and of the  *)
(* BLE application that samples the sensor (source/main.cpp).              *)
(*                                                                         *)
(* The header declares the driver's interface, its control constants and   *)
(* the legal values of every setting; the bodies of the member functions   *)
(* are not part of the sources, so the operations are modelled from the    *)
(* specification (spec.md, sections 4 and 6) on top of the header.         *)
(***************************************************************************)
EXTENDS Integers, Sequences, FiniteSets, TLC

(***************************************************************************)
(* Control constants, ISL29125.h lines 21-41.                              *)
(***************************************************************************)
ISL29125_G == 1
ISL29125_R == 2
ISL29125_B == 3
ISL29125_RG == 6
ISL29125_BG == 7
ISL29125_RGB == 5
ISL29125_STBY == 4
ISL29125_OFF == 0
ISL29125_LTH_W == 4
ISL29125_HTH_W == 6
ISL29125_LTH_R == 2
\* The high read selector mistaken for the low one.
Mut_HTH_R == ISL29125_LTH_R
ISL29125_HTH_R == 3
ISL29125_375LX == 0
ISL29125_10KLX == 8
ISL29125_16BIT == 0
\* The 12-bit value one bit too high (0x20).
Mut_12BIT == 2 * 16
ISL29125_12BIT == 16
ISL29125_PERS1 == 0
ISL29125_PERS2 == 4
ISL29125_PERS4 == 8
\* The 8-times value with a bit of the neighbouring field (0x1C).
Mut_PERS8 == 12 + 16
ISL29125_PERS8 == 12

\* The "no change" argument (the default of every accessor) and the value an
\* accessor returns for an invalid argument (0xff).
NoChange == 255
Invalid == 255
\* The 16-bit sentinel of Threshold (0xffff).
Invalid16 == 65535
\* mbed's NC pin and a connected pin; NULL and a user ISR.
NC == 0
PinD2 == 1
NULL == 0
UserISR == 1

(***************************************************************************)
(* The legal values of each setting, from the header's documentation.      *)
(***************************************************************************)
\* A range check that lets 8 through.
Mut_RGBmodeLegal == 0..8
RGBmodeLegal ==
    {ISL29125_G, ISL29125_R, ISL29125_B, ISL29125_RG, ISL29125_BG,
     ISL29125_RGB, ISL29125_STBY, ISL29125_OFF}
RangeLegal == {ISL29125_375LX, ISL29125_10KLX}
ResolutionLegal == {ISL29125_16BIT, ISL29125_12BIT}
PersistLegal == {ISL29125_PERS1, ISL29125_PERS2, ISL29125_PERS4, ISL29125_PERS8}
IRQonCnvDoneLegal == {0, 1}
IRQonColorLegal == {ISL29125_OFF, ISL29125_G, ISL29125_R, ISL29125_B}
\* A range check that forgets the gap 64..127.
Mut_IRcompLegal == 0..191
IRcompLegal == (0..63) \cup (128..191)

(***************************************************************************)
(* The device's register map (spec.md section 6; the device's datasheet    *)
(* addresses).  16-bit registers are two bytes, low byte first.            *)
(***************************************************************************)
DEVICE_ID == 0
CONFIG1 == 1
CONFIG2 == 2
CONFIG3 == 3
LTH_L == 4
HTH_L == 6
STATUS == 8
GREEN_L == 9
RED_L == 11
BLUE_L == 13
LastReg == 14
Regs == 0..LastReg
\* WhoAmI's expected answer (0x7D), ISL29125.h line 83.
DeviceIdValue == 125

\* Status register bits, ISL29125.h lines 64-75.
ST_IRQ == 1
ST_CONV == 2
ST_BROWNOUT == 4

\* The bits each setting owns in its control byte.
MODE_MASK == 7
RANGE_MASK == 8
RESOL_MASK == 16
SYNC_MASK == 32
IRQCOLOR_MASK == 3
PERSIST_MASK == 12
CNVDONE_MASK == 16
IRCOMP_MASK == 191

(***************************************************************************)
(* C's bit operators on unsigned bytes.                                    *)
(***************************************************************************)
RECURSIVE BitAnd(_, _)
BitAnd(a, b) ==
    IF a = 0 \/ b = 0 THEN 0
    ELSE (a % 2) * (b % 2) + 2 * BitAnd(a \div 2, b \div 2)

RECURSIVE BitOr(_, _)
BitOr(a, b) ==
    IF a = 0 THEN b
    ELSE IF b = 0 THEN a
    ELSE (IF a % 2 = 1 \/ b % 2 = 1 THEN 1 ELSE 0) + 2 * BitOr(a \div 2, b \div 2)

BitNot8(a) == 255 - a

\* The lowest set bit of a mask: m / LowBit(m) shifts a field down to bit 0.
RECURSIVE LowBit(_)
LowBit(m) == IF m % 2 = 1 THEN 1 ELSE 2 * LowBit(m \div 2)

LoByte(w) == w % 256
HiByte(w) == (w \div 256) % 256
Word(lo, hi) == lo + 256 * hi

VARIABLES
    reg,        \* the device's registers: address -> byte
    ismode,     \* _ismode: 0 no irq/sync mode, 1 irq mode, 2 sync mode
    irqsync,    \* the constructor's irqsync argument
    fptr,       \* the constructor's fptr argument
    data,       \* the caller's buffer handed to Read (GRBdata in main.cpp)
    last,       \* the last call or device event, with its result
    written,    \* history: the value last written to <<low, high>> threshold
                \* with success (-1: never written)
    \* The application (main.cpp).
    pc,             \* where the main thread is
    sensorFlag,     \* set by the ticker callback, cleared by the main loop
    initFlag,       \* set by on_init_complete, cleared by the main loop
    bleInit,        \* BLE::init: "idle", "pending", "ok" or "failed"
    attached,       \* updateSensors is attached to updateMeasurments
    connected,      \* RGBApp::_connected
    advertising,    \* startAdvertising was called and no connection followed
    data_present,   \* what the last Read of updateRGB returned
    red,            \* RGBService::red (NoValue: never updated)
    green,          \* RGBService::green
    blue,           \* RGBService::blue
    bus,            \* bus transactions in progress
    unserved        \* history: the ticker fired and updateRGB was not invoked since

drvvars == <<reg, ismode, irqsync, fptr, data, written>>

appvars == <<pc, sensorFlag, initFlag, bleInit, attached, connected, advertising,
             data_present, red, green, blue, bus, unserved>>

vars == <<reg, ismode, irqsync, fptr, data, last, written,
          pc, sensorFlag, initFlag, bleInit, attached, connected, advertising,
          data_present, red, green, blue, bus, unserved>>

\* A characteristic the application has not written yet.
NoValue == 0 - 1

\* The application before main() runs (main.cpp lines 72, 80, 85, 105).
AppInit ==
    /\ pc = "main"
    /\ sensorFlag = FALSE
    /\ initFlag = FALSE
    /\ bleInit = "idle"
    /\ attached = FALSE
    /\ connected = FALSE
    /\ advertising = FALSE
    /\ data_present = FALSE
    /\ red = NoValue /\ green = NoValue /\ blue = NoValue
    /\ bus = 0
    /\ unserved = FALSE

(***************************************************************************)
(* The settings: which register holds each, the bits it owns, and whether  *)
(* the accessor's value is the field in place (Range: 0x08) or the field   *)
(* shifted down to bit 0 (IRQonCnvDone: 0 or 1).                           *)
(***************************************************************************)
Accessors ==
    {"RGBmode", "Range", "Resolution", "Persist", "IRQonCnvDone", "IRQonColor", "IRcomp"}

AccReg(acc) ==
    CASE acc \in {"RGBmode", "Range", "Resolution"} -> CONFIG1
      [] acc = "IRcomp" -> CONFIG2
      [] OTHER -> CONFIG3

AccMask(acc) ==
    CASE acc = "RGBmode" -> MODE_MASK
      [] acc = "Range" -> RANGE_MASK
      [] acc = "Resolution" -> RESOL_MASK
      [] acc = "Persist" -> PERSIST_MASK
      [] acc = "IRQonCnvDone" -> CNVDONE_MASK
      [] acc = "IRQonColor" -> IRQCOLOR_MASK
      [] OTHER -> IRCOMP_MASK

\* The factor between the accessor's value and the field in the register.
AccScale(acc) == IF acc = "IRQonCnvDone" THEN LowBit(CNVDONE_MASK) ELSE 1

AccLegal(acc) ==
    CASE acc = "RGBmode" -> RGBmodeLegal
      [] acc = "Range" -> RangeLegal
      [] acc = "Resolution" -> ResolutionLegal
      [] acc = "Persist" -> PersistLegal
      [] acc = "IRQonCnvDone" -> IRQonCnvDoneLegal
      [] acc = "IRQonColor" -> IRQonColorLegal
      [] OTHER -> IRcompLegal

\* The value a get-mode call decodes from the register byte.
Decode(acc, byte) == BitAnd(byte, AccMask(acc)) \div AccScale(acc)

\* Read-modify-write: clear the setting's bits, OR in the new ones.
Encode(acc, byte, v) ==
    BitOr(BitAnd(byte, BitNot8(AccMask(acc))), v * AccScale(acc))

Call(op, arg, arg2, ret, rd, wr, fail) ==
    [op |-> op, arg |-> arg, arg2 |-> arg2, ret |-> ret, rd |-> rd, wr |-> wr,
     fail |-> fail]

\* A set that goes on to its write after the read of the register failed.
Mut_GetOrSet(acc, v, fail) ==
    /\ UNCHANGED <<ismode, irqsync, fptr, data, written>>
    /\ IF v = NoChange
       THEN /\ fail \in {0, 1}
            /\ reg' = reg
            /\ last' = Call(acc, v, 0,
                            IF fail = 1 THEN Invalid ELSE Decode(acc, reg[AccReg(acc)]),
                            1, 0, fail)
       ELSE IF v \notin AccLegal(acc)
       THEN /\ fail = 0
            /\ reg' = reg
            /\ last' = Call(acc, v, 0, Invalid, 0, 0, 0)
       ELSE /\ fail \in {0, 1, 2}
            /\ reg' = IF fail # 2
                      THEN [reg EXCEPT ![AccReg(acc)] = Encode(acc, @, v)]
                      ELSE reg
            /\ last' = Call(acc, v, 0,
                            IF fail # 2 THEN v ELSE Invalid,
                            1, 1, fail)

(***************************************************************************)
(* A get-or-set accessor.  v = 0xff reads and decodes the register; a      *)
(* legal v is read-modify-written; anything else is refused before the     *)
(* bus is touched.  fail is the bus transaction of this call that the      *)
(* transport fails (0: none): the call stops there and returns 0xff.       *)
(***************************************************************************)
GetOrSet(acc, v, fail) ==
    /\ UNCHANGED <<ismode, irqsync, fptr, data, written>>
    /\ IF v = NoChange
       THEN /\ fail \in {0, 1}
            /\ reg' = reg
            /\ last' = Call(acc, v, 0,
                            IF fail = 1 THEN Invalid ELSE Decode(acc, reg[AccReg(acc)]),
                            1, 0, fail)
       ELSE IF v \notin AccLegal(acc)
       THEN /\ fail = 0
            /\ reg' = reg
            /\ last' = Call(acc, v, 0, Invalid, 0, 0, 0)
       ELSE /\ fail \in {0, 1, 2}
            /\ reg' = IF fail = 0
                      THEN [reg EXCEPT ![AccReg(acc)] = Encode(acc, @, v)]
                      ELSE reg
            /\ last' = Call(acc, v, 0,
                            IF fail = 0 THEN v ELSE Invalid,
                            1, IF fail = 1 THEN 0 ELSE 1, fail)

RGBmode(mode, fail) == GetOrSet("RGBmode", mode, fail)
Range(range, fail) == GetOrSet("Range", range, fail)
Resolution(resol, fail) == GetOrSet("Resolution", resol, fail)
Persist(persist, fail) == GetOrSet("Persist", persist, fail)
IRQonCnvDone(irqen, fail) == GetOrSet("IRQonCnvDone", irqen, fail)
IRQonColor(color, fail) == GetOrSet("IRQonColor", color, fail)
IRcomp(ircomp, fail) == GetOrSet("IRcomp", ircomp, fail)

(***************************************************************************)
(* Construction: the trigger mode follows from the optional arguments      *)
(* (ISL29125.h lines 52-53 and 202).                                       *)
(***************************************************************************)
\* The two pin modes exchanged.
Mut_CtorMode(pin, isr) ==
    IF pin = NC THEN 0
    ELSE IF isr # NULL THEN 2
    ELSE 1

CtorMode(pin, isr) ==
    IF pin = NC THEN 0
    ELSE IF isr # NULL THEN 1
    ELSE 2

\* The registers of a device after power-on: everything 0 but the identifier.
PowerOnRegs == [a \in Regs |-> IF a = DEVICE_ID THEN DeviceIdValue ELSE 0]

(***************************************************************************)
(* The device's side of a read of its status register: the interrupt       *)
(* status flag is cleared when the register is read (ISL29125.h line 60).  *)
(***************************************************************************)
\* A status read that leaves the interrupt flag standing.
Mut_DevStatusRead(r) == r

DevStatusRead(r) == [r EXCEPT ![STATUS] = BitAnd(@, BitNot8(ST_IRQ))]

\* Status(): a single-byte read of the status register.
Status(fail) ==
    /\ fail \in {0, 1}
    /\ UNCHANGED <<ismode, irqsync, fptr, data, written>>
    /\ reg' = IF fail = 0 THEN DevStatusRead(reg) ELSE reg
    /\ last' = Call("Status", 0, 0, IF fail = 0 THEN reg[STATUS] ELSE Invalid,
                    1, 0, fail)

\* WhoAmI(): a single read of the identifier register.
WhoAmI(fail) ==
    /\ fail \in {0, 1}
    /\ UNCHANGED <<reg, ismode, irqsync, fptr, data, written>>
    /\ last' = Call("WhoAmI", 0, 0, IF fail = 0 THEN reg[DEVICE_ID] ELSE Invalid,
                    1, 0, fail)

(***************************************************************************)
(* Read(color, data).  The status register is read first; without a        *)
(* completed conversion the call returns false and leaves the buffer       *)
(* alone.  A single colour is one 16-bit read at the channel's address     *)
(* into data[0]; ISL29125_RGB is one contiguous 6-byte read of the Green,  *)
(* Red and Blue registers, redistributed into data[0..2] in that order.    *)
(***************************************************************************)
ReadColors == {ISL29125_G, ISL29125_R, ISL29125_B, ISL29125_RGB}

ChannelAddr(color) ==
    CASE color = ISL29125_G -> GREEN_L
      [] color = ISL29125_R -> RED_L
      [] color = ISL29125_B -> BLUE_L
      [] OTHER -> GREEN_L

\* readRegs(addr, buf, len): the bytes at addr .. addr + len - 1.
readRegs(r, addr, len) == [i \in 1..len |-> r[addr + i - 1]]

\* The channels stored in Red, Green, Blue order.
Mut_Redistribute(color, bytes, buf) ==
    IF color = ISL29125_RGB
    THEN <<Word(bytes[3], bytes[4]), Word(bytes[1], bytes[2]), Word(bytes[5], bytes[6])>>
    ELSE [buf EXCEPT ![1] = Word(bytes[1], bytes[2])]

\* The buffer after the bytes of a data read are stored into it.
Redistribute(color, bytes, buf) ==
    IF color = ISL29125_RGB
    THEN [i \in 1..3 |-> Word(bytes[2 * i - 1], bytes[2 * i])]
    ELSE [buf EXCEPT ![1] = Word(bytes[1], bytes[2])]

\* The data registers read and stored before the status is looked at.
Mut_Read(color, fail) ==
    LET st == reg[STATUS]
        done == fail # 1 /\ BitAnd(st, ST_CONV) # 0
        ok == done /\ fail = 0
        bytes == readRegs(reg, ChannelAddr(color),
                          IF color = ISL29125_RGB THEN 6 ELSE 2)
    IN /\ fail \in {0, 1, 2}
       /\ fail = 2 => BitAnd(st, ST_CONV) # 0
       /\ UNCHANGED <<ismode, irqsync, fptr, written>>
       /\ reg' = IF fail = 1 THEN reg ELSE DevStatusRead(reg)
       /\ data' = IF fail = 0 THEN Redistribute(color, bytes, data) ELSE data
       /\ last' = Call("Read", color, 0, ok, IF done THEN 2 ELSE 1, 0, fail)

Read(color, fail) ==
    LET st == reg[STATUS]
        done == fail # 1 /\ BitAnd(st, ST_CONV) # 0
        ok == done /\ fail = 0
        bytes == readRegs(reg, ChannelAddr(color),
                          IF color = ISL29125_RGB THEN 6 ELSE 2)
    IN /\ fail \in {0, 1, 2}
       /\ fail = 2 => BitAnd(st, ST_CONV) # 0
       /\ UNCHANGED <<ismode, irqsync, fptr, written>>
       /\ reg' = IF fail = 1 THEN reg ELSE DevStatusRead(reg)
       /\ data' = IF ok THEN Redistribute(color, bytes, data) ELSE data
       /\ last' = Call("Read", color, 0, ok, IF done THEN 2 ELSE 1, 0, fail)

(***************************************************************************)
(* Threshold(reg, thres): a 2-byte write for the _W selectors, a 2-byte    *)
(* read for the _R selectors, which ignore thres.                          *)
(***************************************************************************)
ThresholdSelectors ==
    {ISL29125_LTH_W, ISL29125_HTH_W, ISL29125_LTH_R, ISL29125_HTH_R}

ThresholdAddr(sel) ==
    CASE sel = ISL29125_LTH_W -> LTH_L
      [] sel = ISL29125_HTH_W -> HTH_L
      [] sel = ISL29125_LTH_R -> LTH_L
      [] OTHER -> HTH_L

\* The low-threshold read selector taken for a write.
Mut_ThresholdIsWrite(sel) == sel \in {ISL29125_LTH_W, ISL29125_HTH_W, ISL29125_LTH_R}

ThresholdIsWrite(sel) == sel \in {ISL29125_LTH_W, ISL29125_HTH_W}

\* writeRegs: the two bytes of a 16-bit value stored at addr, low byte first.
writeWord(r, addr, w) == [r EXCEPT ![addr] = LoByte(w), ![addr + 1] = HiByte(w)]

readWord(r, addr) == Word(r[addr], r[addr + 1])

Threshold(sel, thres, fail) ==
    LET addr == ThresholdAddr(sel)
    IN /\ fail \in {0, 1}
       /\ UNCHANGED <<ismode, irqsync, fptr, data>>
       /\ written' = IF ThresholdIsWrite(sel) /\ fail = 0
                     THEN [written EXCEPT ![IF sel = ISL29125_LTH_W THEN 1 ELSE 2] = thres]
                     ELSE written
       /\ IF ThresholdIsWrite(sel)
          THEN /\ reg' = IF fail = 0 THEN writeWord(reg, addr, thres) ELSE reg
               /\ last' = Call("Threshold", sel, thres,
                               IF fail = 0 THEN thres ELSE Invalid16, 0, 1, fail)
          ELSE /\ reg' = reg
               /\ last' = Call("Threshold", sel, thres,
                               IF fail = 0 THEN readWord(reg, addr) ELSE Invalid16,
                               1, 0, fail)

(***************************************************************************)
(* Run(): only in sync mode; issues the start-conversion command and       *)
(* returns whether the transport accepted it.  The device then has a       *)
(* conversion pending: Run does not wait for it.                           *)
(***************************************************************************)
DevStartConversion(r) == [r EXCEPT ![STATUS] = BitAnd(@, BitNot8(ST_CONV))]

\* Run in any mode but none.
Mut_Run(fail) ==
    /\ UNCHANGED <<ismode, irqsync, fptr, data, written>>
    /\ IF ismode # 0
       THEN /\ fail \in {0, 1}
            /\ reg' = IF fail = 0 THEN DevStartConversion(reg) ELSE reg
            /\ last' = Call("Run", 0, 0, fail = 0, 0, 1, fail)
       ELSE /\ fail = 0
            /\ reg' = reg
            /\ last' = Call("Run", 0, 0, FALSE, 0, 0, 0)

Run(fail) ==
    /\ UNCHANGED <<ismode, irqsync, fptr, data, written>>
    /\ IF ismode = 2
       THEN /\ fail \in {0, 1}
            /\ reg' = IF fail = 0 THEN DevStartConversion(reg) ELSE reg
            /\ last' = Call("Run", 0, 0, fail = 0, 0, 1, fail)
       ELSE /\ fail = 0
            /\ reg' = reg
            /\ last' = Call("Run", 0, 0, FALSE, 0, 0, 0)

(***************************************************************************)
(* The device.  While a channel is being converted (the operating mode is  *)
(* neither off nor standby) conversions start and complete; a completed    *)
(* conversion stores the channel values and sets the conversion status.    *)
(* The interrupt status is raised by the threshold comparator (a colour    *)
(* is assigned) or by a completed conversion (IRQ on conversion done).     *)
(***************************************************************************)
Converting(r) == Decode("RGBmode", r[CONFIG1]) \notin {ISL29125_OFF, ISL29125_STBY}

IrqArmed(r) ==
    \/ Decode("IRQonColor", r[CONFIG3]) # ISL29125_OFF
    \/ Decode("IRQonCnvDone", r[CONFIG3]) # 0

\* The k-th sample: Green, Red, Blue = k * (0x1111, 0x2222, 0x3333).
Sample(k) == <<4369 * k, 8738 * k, 13107 * k>>

DevConversionStart ==
    /\ Converting(reg)
    /\ BitAnd(reg[STATUS], ST_CONV) # 0
    /\ UNCHANGED <<ismode, irqsync, fptr, data, written>>
    /\ reg' = DevStartConversion(reg)
    /\ last' = Call("dev_start", 0, 0, 0, 0, 0, 0)

DevConversionDone(s) ==
    /\ Converting(reg)
    /\ BitAnd(reg[STATUS], ST_CONV) = 0
    /\ UNCHANGED <<ismode, irqsync, fptr, data, written>>
    /\ reg' = [writeWord(writeWord(writeWord(reg, GREEN_L, s[1]), RED_L, s[2]),
                         BLUE_L, s[3])
               EXCEPT ![STATUS] = BitOr(@, ST_CONV)]
    /\ last' = Call("dev_done", 0, 0, 0, 0, 0, 0)

DevInterrupt ==
    /\ IrqArmed(reg)
    /\ BitAnd(reg[STATUS], ST_IRQ) = 0
    /\ UNCHANGED <<ismode, irqsync, fptr, data, written>>
    /\ reg' = [reg EXCEPT ![STATUS] = BitOr(@, ST_IRQ)]
    /\ last' = Call("dev_irq", 0, 0, 0, 0, 0, 0)

(***************************************************************************)
(* The whole driver on one device: every public operation, any of its bus  *)
(* transactions failing, and the device's events, for each way of          *)
(* constructing the object.  The settings are written with one value       *)
(* each, the thresholds with the default argument.                         *)
(***************************************************************************)
MaxSample == 2
\* Which bus transaction of a call the transport fails (0: none).
Fails == {0, 1, 2}

DrvArgs(acc) ==
    CASE acc = "RGBmode" -> {ISL29125_RGB, NoChange, 8}
      [] acc = "IRQonColor" -> {ISL29125_G, NoChange, 4}
      [] acc = "IRcomp" -> {0, NoChange, 64}
      [] OTHER -> {0, NoChange, 254}

Init ==
    /\ irqsync \in {NC, PinD2}
    /\ fptr \in {NULL, UserISR}
    /\ ismode = CtorMode(irqsync, fptr)
    /\ reg = PowerOnRegs
    /\ data = <<0, 0, 0>>
    /\ last = Call("ctor", 0, 0, 0, 0, 0, 0)
    /\ written = <<-1, -1>>
    /\ AppInit

AccessorCalls(f) ==
    \/ \E v \in DrvArgs("RGBmode") : RGBmode(v, f) /\ UNCHANGED appvars
    \/ \E v \in DrvArgs("Range") : Range(v, f) /\ UNCHANGED appvars
    \/ \E v \in DrvArgs("Resolution") : Resolution(v, f) /\ UNCHANGED appvars
    \/ \E v \in DrvArgs("Persist") : Persist(v, f) /\ UNCHANGED appvars
    \/ \E v \in DrvArgs("IRQonCnvDone") : IRQonCnvDone(v, f) /\ UNCHANGED appvars
    \/ \E v \in DrvArgs("IRQonColor") : IRQonColor(v, f) /\ UNCHANGED appvars
    \/ \E v \in DrvArgs("IRcomp") : IRcomp(v, f) /\ UNCHANGED appvars

DeviceEvents ==
    \/ DevConversionStart /\ UNCHANGED appvars
    \/ \E k \in 1..MaxSample : DevConversionDone(Sample(k)) /\ UNCHANGED appvars
    \/ DevInterrupt /\ UNCHANGED appvars

Next ==
    \/ \E f \in Fails :
        \/ Status(f) /\ UNCHANGED appvars
        \/ WhoAmI(f) /\ UNCHANGED appvars
        \/ Read(ISL29125_RGB, f) /\ UNCHANGED appvars
        \/ \E sel \in ThresholdSelectors : Threshold(sel, 0, f) /\ UNCHANGED appvars
        \/ Run(f) /\ UNCHANGED appvars
        \/ AccessorCalls(f)
    \/ DeviceEvents

Spec == Init /\ [][Next]_vars

(***************************************************************************)
(* The accessors over their whole legal sets: on a device whose control    *)
(* registers hold any combination of settings the accessors can have left  *)
(* there (CONFIG1: mode, range, resolution and the sync-enable bit;        *)
(* CONFIG3: IRQ colour, persistence, IRQ on conversion done), one call of  *)
(* an accessor with any argument, then a get of the same setting, every    *)
(* bus transaction succeeding.                                             *)
(***************************************************************************)
\* Illegal arguments next to the legal ones: every value one past a legal one.
Illegal(acc) == {v \in 0..254 : v \notin AccLegal(acc) /\ v - 1 \in AccLegal(acc)}

\* IRcomp's arguments here; SpecIR runs it over every byte.
IRcompEdges == {63, 128}

CfgArgs(acc) ==
    (IF acc = "IRcomp" THEN IRcompEdges ELSE AccLegal(acc))
        \cup Illegal(acc) \cup {NoChange}

Config1Values == 0..(MODE_MASK + RANGE_MASK + RESOL_MASK + SYNC_MASK)
Config2Values == IRcompEdges \cup {0}
Config3Values == 0..(IRQCOLOR_MASK + PERSIST_MASK + CNVDONE_MASK)

InitCfg ==
    /\ irqsync = NC
    /\ fptr = NULL
    /\ ismode = CtorMode(irqsync, fptr)
    /\ \E c1 \in Config1Values, c2 \in Config2Values, c3 \in Config3Values :
          reg = [PowerOnRegs EXCEPT ![CONFIG1] = c1, ![CONFIG2] = c2, ![CONFIG3] = c3]
    /\ data = <<0, 0, 0>>
    /\ last = Call("ctor", 0, 0, 0, 0, 0, 0)
    /\ written = <<-1, -1>>
    /\ AppInit

AccessorCall(acc, v, f) ==
    CASE acc = "RGBmode" -> RGBmode(v, f)
      [] acc = "Range" -> Range(v, f)
      [] acc = "Resolution" -> Resolution(v, f)
      [] acc = "Persist" -> Persist(v, f)
      [] acc = "IRQonCnvDone" -> IRQonCnvDone(v, f)
      [] acc = "IRQonColor" -> IRQonColor(v, f)
      [] OTHER -> IRcomp(v, f)

NextCfg ==
    \/ /\ last.op = "ctor"
       /\ \E acc \in Accessors : \E v \in CfgArgs(acc) : AccessorCall(acc, v, 0)
       /\ UNCHANGED appvars
    \/ /\ last.op \in Accessors
       /\ last.arg # NoChange
       /\ AccessorCall(last.op, NoChange, 0)
       /\ UNCHANGED appvars

SpecCfg == InitCfg /\ [][NextCfg]_vars

(***************************************************************************)
(* IRcomp alone: on a device whose compensation register holds any value   *)
(* IRcomp can have left there, one call with any byte, then a get.         *)
(***************************************************************************)
InitIR ==
    /\ irqsync = NC
    /\ fptr = NULL
    /\ ismode = CtorMode(irqsync, fptr)
    /\ \E c \in IRcompLegal : reg = [PowerOnRegs EXCEPT ![CONFIG2] = c]
    /\ data = <<0, 0, 0>>
    /\ last = Call("ctor", 0, 0, 0, 0, 0, 0)
    /\ written = <<-1, -1>>
    /\ AppInit

NextIR ==
    \/ /\ last.op = "ctor"
       /\ \E v \in 0..255, f \in Fails : IRcomp(v, f)
       /\ UNCHANGED appvars
    \/ /\ last.op = "IRcomp"
       /\ last.arg # NoChange
       /\ \E f \in Fails : IRcomp(NoChange, f)
       /\ UNCHANGED appvars

SpecIR == InitIR /\ [][NextIR]_vars

(***************************************************************************)
(* Measurement: the sensor as main.cpp constructs it, switched between     *)
(* RGB conversion and standby, sampled with every selector of Read while   *)
(* the device converts.                                                    *)
(***************************************************************************)
InitMeas ==
    /\ irqsync = NC
    /\ fptr = NULL
    /\ ismode = CtorMode(irqsync, fptr)
    /\ reg = PowerOnRegs
    /\ data = <<0, 0, 0>>
    /\ last = Call("ctor", 0, 0, 0, 0, 0, 0)
    /\ written = <<-1, -1>>
    /\ AppInit

NextMeas ==
    \/ \E f \in Fails :
        \/ \E m \in {ISL29125_RGB, ISL29125_STBY} : RGBmode(m, f) /\ UNCHANGED appvars
        \/ Status(f) /\ UNCHANGED appvars
        \/ \E c \in ReadColors : Read(c, f) /\ UNCHANGED appvars
    \/ DevConversionStart /\ UNCHANGED appvars
    \/ \E k \in 1..MaxSample : DevConversionDone(Sample(k)) /\ UNCHANGED appvars

SpecMeas == InitMeas /\ [][NextMeas]_vars

(***************************************************************************)
(* The interrupt thresholds, written and read back in any order.           *)
(***************************************************************************)
\* 0x0100, 0x8000, 0x00FF and the default argument.
ThresholdValues == {256, 32768, 255, 0}

NextThr ==
    \E sel \in ThresholdSelectors, v \in ThresholdValues, f \in Fails :
        Threshold(sel, v, f) /\ UNCHANGED appvars

SpecThr == InitMeas /\ [][NextThr]_vars

(***************************************************************************)
(* The read-only calls among the writes of the thresholds: get-mode        *)
(* accessor calls, Threshold with every selector and value, WhoAmI, on a   *)
(* device whose control registers are all zeros or all ones.               *)
(***************************************************************************)
InitRO ==
    /\ irqsync = NC
    /\ fptr = NULL
    /\ ismode = CtorMode(irqsync, fptr)
    /\ \E c1 \in {0, MODE_MASK + RANGE_MASK + RESOL_MASK + SYNC_MASK},
          c2 \in {0, IRCOMP_MASK},
          c3 \in {0, IRQCOLOR_MASK + PERSIST_MASK + CNVDONE_MASK} :
          reg = [PowerOnRegs EXCEPT ![CONFIG1] = c1, ![CONFIG2] = c2, ![CONFIG3] = c3]
    /\ data = <<0, 0, 0>>
    /\ last = Call("ctor", 0, 0, 0, 0, 0, 0)
    /\ written = <<-1, -1>>
    /\ AppInit

NextRO ==
    \E f \in Fails :
        \/ \E acc \in Accessors : AccessorCall(acc, NoChange, f) /\ UNCHANGED appvars
        \/ \E sel \in ThresholdSelectors, v \in ThresholdValues :
              Threshold(sel, v, f) /\ UNCHANGED appvars
        \/ WhoAmI(f) /\ UNCHANGED appvars

SpecRO == InitRO /\ [][NextRO]_vars

(***************************************************************************)
(* The application, main.cpp.  The main thread runs main() and, inside     *)
(* BLE::init and event_queue.dispatch, the BLE callbacks; the ticker       *)
(* callback updateMeasurments runs in interrupt context, between any two   *)
(* steps of the main thread.  pc is the statement the main thread is at:   *)
(*   "main"        lines 175-182, before mydevice.init                     *)
(*   "init"        inside mydevice.init (line 182)                         *)
(*   "while"       line 185, if (sensorFlag)                               *)
(*   "updateRGB"   line 111, if (_connected)                               *)
(*   "Read"        line 112, RGBsensor.Read called                         *)
(*   "Reading"     line 112, its bus transactions in progress              *)
(*   "updateRed", "updateGreen", "updateBlue"   lines 114-116              *)
(*   "clear"       line 187, sensorFlag = false                            *)
(*   "initFlag"    line 190, if (initFlag)                                 *)
(*   "attach"      lines 191-195                                           *)
(*   "dispatch"    line 199, event_queue.dispatch(100)                     *)
(***************************************************************************)
BLE_ERROR_NONE == 0
\* The statuses a BLE callback is handed: no error, or some error.
BleErrors == {BLE_ERROR_NONE, 1}

\* A step of the application, as the driver's calls are recorded.
Step(name, arg) == Call(name, arg, 0, 0, 0, 0, 0)

\* A ticker callback that samples the sensor itself.
Mut_updateMeasurments ==
    /\ attached
    /\ sensorFlag' = TRUE
    /\ unserved' = TRUE
    /\ bus' = bus + 1
    /\ last' = Step("updateMeasurments", 0)
    /\ UNCHANGED drvvars
    /\ UNCHANGED <<pc, initFlag, bleInit, attached, connected, advertising,
                   data_present, red, green, blue>>

\* updateMeasurments(), lines 87-89, called by the ticker once attached.
updateMeasurments ==
    /\ attached
    /\ sensorFlag' = TRUE
    /\ unserved' = TRUE
    /\ last' = Step("updateMeasurments", 0)
    /\ UNCHANGED drvvars
    /\ UNCHANGED <<pc, initFlag, bleInit, attached, connected, advertising,
                   data_present, red, green, blue, bus>>

\* on_init_complete(params), lines 91-98: once, from BLE::init or from the
\* event queue.
on_init_complete(error) ==
    /\ bleInit = "pending"
    /\ pc \in {"init", "dispatch"}
    /\ bleInit' = IF error # BLE_ERROR_NONE THEN "failed" ELSE "ok"
    /\ initFlag' = (error = BLE_ERROR_NONE)
    /\ last' = Step("on_init_complete", error)
    /\ UNCHANGED drvvars
    /\ UNCHANGED <<pc, sensorFlag, attached, connected, advertising,
                   data_present, red, green, blue, bus, unserved>>

\* A connection handler that does not look at the event's status.
Mut_onConnectionComplete(status) ==
    /\ bleInit = "ok"
    /\ pc = "dispatch"
    /\ connected' = TRUE
    /\ advertising' = FALSE
    /\ last' = Step("onConnectionComplete", status)
    /\ UNCHANGED drvvars
    /\ UNCHANGED <<pc, sensorFlag, initFlag, bleInit, attached,
                   data_present, red, green, blue, bus, unserved>>

\* RGBApp::onConnectionComplete, lines 126-130.  The stack stops advertising
\* when a connection is established.
onConnectionComplete(status) ==
    /\ bleInit = "ok"
    /\ pc = "dispatch"
    /\ connected' = IF status = BLE_ERROR_NONE THEN TRUE ELSE connected
    /\ advertising' = IF status = BLE_ERROR_NONE THEN FALSE ELSE advertising
    /\ last' = Step("onConnectionComplete", status)
    /\ UNCHANGED drvvars
    /\ UNCHANGED <<pc, sensorFlag, initFlag, bleInit, attached,
                   data_present, red, green, blue, bus, unserved>>

\* RGBApp::onDisconnectionComplete, lines 121-124.
onDisconnectionComplete ==
    /\ bleInit = "ok"
    /\ pc = "dispatch"
    /\ advertising' = TRUE
    /\ connected' = FALSE
    /\ last' = Step("onDisconnectionComplete", 0)
    /\ UNCHANGED drvvars
    /\ UNCHANGED <<pc, sensorFlag, initFlag, bleInit, attached,
                   data_present, red, green, blue, bus, unserved>>

\* main(), lines 175-182: mydevice.init(&on_init_complete) is called ...
main_init ==
    /\ pc = "main"
    /\ pc' = "init"
    /\ bleInit' = "pending"
    /\ last' = Step("main_init", 0)
    /\ UNCHANGED drvvars
    /\ UNCHANGED <<sensorFlag, initFlag, attached, connected, advertising,
                   data_present, red, green, blue, bus, unserved>>

\* ... and returns.
main_loop ==
    /\ pc = "init"
    /\ pc' = "while"
    /\ last' = Step("main_loop", 0)
    /\ UNCHANGED drvvars
    /\ UNCHANGED <<sensorFlag, initFlag, bleInit, attached, connected, advertising,
                   data_present, red, green, blue, bus, unserved>>

\* Line 185, if (sensorFlag): updateRGB is invoked (line 186) or skipped.
main_sensorFlag ==
    /\ pc = "while"
    /\ pc' = IF sensorFlag THEN "updateRGB" ELSE "initFlag"
    /\ unserved' = IF sensorFlag THEN FALSE ELSE unserved
    /\ last' = Step("main_sensorFlag", IF sensorFlag THEN 1 ELSE 0)
    /\ UNCHANGED drvvars
    /\ UNCHANGED <<sensorFlag, initFlag, bleInit, attached, connected, advertising,
                   data_present, red, green, blue, bus>>

\* An updateRGB that samples whether or not a client is connected.
Mut_updateRGB ==
    /\ pc = "updateRGB"
    /\ pc' = "Read"
    /\ last' = Step("updateRGB", 1)
    /\ UNCHANGED drvvars
    /\ UNCHANGED <<sensorFlag, initFlag, bleInit, attached, connected, advertising,
                   data_present, red, green, blue, bus, unserved>>

\* RGBApp::updateRGB, line 111: if (_connected).
updateRGB ==
    /\ pc = "updateRGB"
    /\ pc' = IF connected THEN "Read" ELSE "clear"
    /\ last' = Step("updateRGB", IF connected THEN 1 ELSE 0)
    /\ UNCHANGED drvvars
    /\ UNCHANGED <<sensorFlag, initFlag, bleInit, attached, connected, advertising,
                   data_present, red, green, blue, bus, unserved>>

\* Line 112: RGBsensor.Read(ISL29125_RGB, GRBdata) starts on the bus ...
updateRGB_Read ==
    /\ pc = "Read"
    /\ pc' = "Reading"
    /\ bus' = bus + 1
    /\ last' = Step("updateRGB_Read", ISL29125_RGB)
    /\ UNCHANGED drvvars
    /\ UNCHANGED <<sensorFlag, initFlag, bleInit, attached, connected, advertising,
                   data_present, red, green, blue, unserved>>

\* ... and returns into data_present.
updateRGB_Reading(fail) ==
    /\ pc = "Reading"
    /\ Read(ISL29125_RGB, fail)
    /\ data_present' = last'.ret
    /\ bus' = bus - 1
    /\ pc' = "updateRed"
    /\ UNCHANGED <<sensorFlag, initFlag, bleInit, attached, connected, advertising,
                   red, green, blue, unserved>>

\* The red characteristic fed from the first slot of the buffer.
Mut_updateRed ==
    /\ pc = "updateRed"
    /\ red' = data[1]
    /\ pc' = "updateGreen"
    /\ last' = Step("updateRed", data[1])
    /\ UNCHANGED drvvars
    /\ UNCHANGED <<sensorFlag, initFlag, bleInit, attached, connected, advertising,
                   data_present, green, blue, bus, unserved>>

\* Line 114: _rgbService.updateRed(GRBdata[1]) (lines 39-42).
updateRed ==
    /\ pc = "updateRed"
    /\ red' = data[2]
    /\ pc' = "updateGreen"
    /\ last' = Step("updateRed", data[2])
    /\ UNCHANGED drvvars
    /\ UNCHANGED <<sensorFlag, initFlag, bleInit, attached, connected, advertising,
                   data_present, green, blue, bus, unserved>>

\* Line 115: _rgbService.updateGreen(GRBdata[0]) (lines 44-47).
updateGreen ==
    /\ pc = "updateGreen"
    /\ green' = data[1]
    /\ pc' = "updateBlue"
    /\ last' = Step("updateGreen", data[1])
    /\ UNCHANGED drvvars
    /\ UNCHANGED <<sensorFlag, initFlag, bleInit, attached, connected, advertising,
                   data_present, red, blue, bus, unserved>>

\* Line 116: _rgbService.updateBlue(GRBdata[2]) (lines 49-52).
updateBlue ==
    /\ pc = "updateBlue"
    /\ blue' = data[3]
    /\ pc' = "clear"
    /\ last' = Step("updateBlue", data[3])
    /\ UNCHANGED drvvars
    /\ UNCHANGED <<sensorFlag, initFlag, bleInit, attached, connected, advertising,
                   data_present, red, green, bus, unserved>>

\* Line 187: sensorFlag = false.
main_clear ==
    /\ pc = "clear"
    /\ sensorFlag' = FALSE
    /\ pc' = "initFlag"
    /\ last' = Step("main_clear", 0)
    /\ UNCHANGED drvvars
    /\ UNCHANGED <<initFlag, bleInit, attached, connected, advertising,
                   data_present, red, green, blue, bus, unserved>>

\* Line 190: if (initFlag).
main_initFlag ==
    /\ pc = "initFlag"
    /\ pc' = IF initFlag THEN "attach" ELSE "dispatch"
    /\ last' = Step("main_initFlag", IF initFlag THEN 1 ELSE 0)
    /\ UNCHANGED drvvars
    /\ UNCHANGED <<sensorFlag, initFlag, bleInit, attached, connected, advertising,
                   data_present, red, green, blue, bus, unserved>>

\* Lines 191-195: start_advertising, updateSensors.attach, initFlag = false.
main_attach ==
    /\ pc = "attach"
    /\ advertising' = TRUE
    /\ attached' = TRUE
    /\ initFlag' = FALSE
    /\ pc' = "dispatch"
    /\ last' = Step("main_attach", 0)
    /\ UNCHANGED drvvars
    /\ UNCHANGED <<sensorFlag, bleInit, connected,
                   data_present, red, green, blue, bus, unserved>>

\* event_queue.dispatch_forever(): the main thread never leaves the queue.
Mut_main_dispatch ==
    /\ pc = "dispatch"
    /\ pc' = "dispatch"
    /\ last' = Step("main_dispatch", 0)
    /\ UNCHANGED drvvars
    /\ UNCHANGED <<sensorFlag, initFlag, bleInit, attached, connected, advertising,
                   data_present, red, green, blue, bus, unserved>>

\* Line 199: event_queue.dispatch(100) returns, and the loop starts over.
main_dispatch ==
    /\ pc = "dispatch"
    /\ pc' = "while"
    /\ last' = Step("main_dispatch", 0)
    /\ UNCHANGED drvvars
    /\ UNCHANGED <<sensorFlag, initFlag, bleInit, attached, connected, advertising,
                   data_present, red, green, blue, bus, unserved>>

\* The main thread.
MainThread ==
    \/ main_init
    \/ main_loop
    \/ main_sensorFlag
    \/ updateRGB
    \/ updateRGB_Read
    \/ \E f \in Fails : updateRGB_Reading(f)
    \/ updateRed
    \/ updateGreen
    \/ updateBlue
    \/ main_clear
    \/ main_initFlag
    \/ main_attach
    \/ main_dispatch

\* The callbacks the BLE stack makes while the main thread is inside it.
BleEvents ==
    \/ \E e \in BleErrors : on_init_complete(e)
    \/ \E s \in BleErrors : onConnectionComplete(s)
    \/ onDisconnectionComplete

\* The sensor converting on its own.
SensorEvents ==
    \/ DevConversionStart /\ UNCHANGED appvars
    \/ \E k \in 1..MaxSample : DevConversionDone(Sample(k)) /\ UNCHANGED appvars

\* The sensor as main.cpp constructs it (line 69), converting all three
\* channels or powered down.
InitApp ==
    /\ irqsync = NC
    /\ fptr = NULL
    /\ ismode = CtorMode(irqsync, fptr)
    /\ \E m \in {ISL29125_RGB, ISL29125_OFF} : reg = [PowerOnRegs EXCEPT ![CONFIG1] = m]
    /\ data = <<0, 0, 0>>
    /\ last = Call("ctor", 0, 0, 0, 0, 0, 0)
    /\ written = <<0 - 1, 0 - 1>>
    /\ AppInit

NextApp ==
    \/ MainThread
    \/ BleEvents
    \/ updateMeasurments
    \/ SensorEvents

SpecApp == InitApp /\ [][NextApp]_vars

(***************************************************************************)
(* Liveness.  main() never blocks for good: every statement of the loop    *)
(* returns (Read makes its bus transactions once, dispatch(100) returns    *)
(* after 100 ms), so the main thread always takes its next step; and the   *)
(* ticker, once attached with a period of 1 s (line 194), is never         *)
(* detached and keeps firing.                                              *)
(***************************************************************************)
SpecAppLive ==
    /\ InitApp
    /\ [][NextApp]_vars
    /\ WF_vars(MainThread)
    /\ WF_vars(updateMeasurments)

(***************************************************************************)
(*                               Properties                                *)
(***************************************************************************)
IsSetCall(c) == c.op \in Accessors /\ c.arg \in AccLegal(c.op)
IsGetCall(c) == c.op \in Accessors /\ c.arg = NoChange
SameByte(acc) == {b \in Accessors \ {acc} : AccReg(b) = AccReg(acc)}
Bit(byte, n) == (byte \div (2 ^ n)) % 2

\* C1: when every bus transaction succeeds, a set call of an accessor with a
\* legal value V returns V, and a get-mode call (0xff) of the same accessor
\* made immediately afterwards returns V.
C1_SetThenGet ==
    [][/\ (IsSetCall(last') /\ last'.fail = 0 => last'.ret = last'.arg)
       /\ (/\ IsSetCall(last) /\ last.fail = 0
           /\ IsGetCall(last') /\ last'.op = last.op /\ last'.fail = 0
           => last'.ret = last.arg)]_vars

\* Persist was set to 8 times, between an IRQ colour and an IRQ on conversion
\* done that are both on, and returned the value.
C1_Witness ==
    /\ last.op = "Persist" /\ last.arg = ISL29125_PERS8 /\ last.ret = ISL29125_PERS8
    /\ last.rd = 1 /\ last.wr = 1
    /\ reg[CONFIG3] = CNVDONE_MASK + ISL29125_PERS8 + ISL29125_B

\* C2: a valid set of one of the six settings packed in CONFIG1 or CONFIG3
\* changes only the bits that setting owns: the get value of every sibling
\* in the same byte and every other bit of the byte (the sync-enable bit
\* included) are as before, and so is every other register.
C2_SetKeepsSiblings ==
    [][IsSetCall(last') /\ last'.op # "IRcomp" =>
         LET acc == last'.op
             r == AccReg(acc)
         IN /\ \A b \in SameByte(acc) : Decode(b, reg'[r]) = Decode(b, reg[r])
            /\ BitAnd(reg'[r], BitNot8(AccMask(acc)))
                   = BitAnd(reg[r], BitNot8(AccMask(acc)))
            /\ r = CONFIG1 => Bit(reg'[r], 5) = Bit(reg[r], 5)
            /\ \A a \in Regs \ {r} : reg'[a] = reg[a]]_vars

\* Range was set between a mode, a resolution and a sync-enable bit that are
\* all non-zero, and they are still there.
C2_Witness ==
    /\ last.op = "Range" /\ last.arg = ISL29125_10KLX /\ last.ret = ISL29125_10KLX
    /\ reg[CONFIG1] = SYNC_MASK + ISL29125_12BIT + ISL29125_10KLX + ISL29125_RGB
    /\ reg[CONFIG3] = CNVDONE_MASK + ISL29125_PERS4 + ISL29125_B

\* The legal values of each accessor, as the header documents them.
C3_Legal(op) ==
    CASE op = "RGBmode" -> 0..7
      [] op = "Range" -> {0, 8}
      [] op = "Resolution" -> {0, 16}
      [] op = "Persist" -> {0, 4, 8, 12}
      [] op = "IRQonCnvDone" -> {0, 1}
      [] op = "IRQonColor" -> 0..3
      [] OTHER -> (0..63) \cup (128..191)

\* C3: an accessor called with an argument that is neither legal nor 0xff
\* performs no bus transaction (no read, no write), returns 0xff and leaves
\* every device register unchanged.
C3_InvalidNoBus ==
    [][last'.op \in Accessors /\ last'.arg # NoChange
           /\ last'.arg \notin C3_Legal(last'.op) =>
         /\ last'.ret = 255
         /\ last'.rd = 0 /\ last'.wr = 0
         /\ reg' = reg]_vars

\* RGBmode(8) was refused on a device whose settings are not the defaults.
C3_Witness ==
    /\ last.op = "RGBmode" /\ last.arg = 8 /\ last.ret = 255
    /\ last.rd = 0 /\ last.wr = 0
    /\ reg[CONFIG1] = ISL29125_10KLX + ISL29125_BG
    /\ reg[CONFIG3] = ISL29125_PERS2

IrqPending(r) == Bit(r[STATUS], 0) = 1
ConvDone(r) == Bit(r[STATUS], 1) = 1

\* What C4 says of Status itself: a successful call returns the pending bit
\* as it was and leaves it cleared, so that a second call, with nothing in
\* between, returns bit 0 = 0.
C4_StatusClears ==
    /\ (last'.op = "Status" /\ last'.fail = 0 =>
          /\ last'.ret = reg[STATUS]
          /\ Bit(last'.ret, 0) = (IF IrqPending(reg) THEN 1 ELSE 0)
          /\ ~IrqPending(reg'))
    /\ (/\ last.op = "Status" /\ last.fail = 0
        /\ last'.op = "Status" /\ last'.fail = 0
        => Bit(last'.ret, 0) = 0)

\* C4 as claimed: Status() is a destructive read of the interrupt-pending
\* bit, and no other operation of the driver clears the pending bit.
C4_OnlyStatusClears ==
    [][/\ C4_StatusClears
       /\ (IrqPending(reg) /\ ~IrqPending(reg') => last'.op = "Status")]_vars

\* C4, amended: Status() is a destructive read of the interrupt-pending bit
\* (first call returns bit 0 = 1, an immediate second call bit 0 = 0); the
\* only other operation that clears it is Read, which reads the status
\* register for the conversion-complete bit.
C4_StatusOrReadClears ==
    [][/\ C4_StatusClears
       /\ (IrqPending(reg) /\ ~IrqPending(reg') => last'.op \in {"Status", "Read"})]_vars

\* Status() has just returned the pending bit set, and the device has it clear.
C4_Witness ==
    /\ last.op = "Status" /\ last.fail = 0
    /\ Bit(last.ret, 0) = 1
    /\ ~IrqPending(reg)

\* C5: a Read with ISL29125_RGB that reports new data fills the buffer in
\* the device's register order: data[0] = Green, data[1] = Red, data[2] =
\* Blue, the 16-bit values of the channel registers (low byte first).
C5_ReadOrder ==
    [][last'.op = "Read" /\ last'.arg = ISL29125_RGB /\ last'.ret = TRUE =>
         /\ data'[1] = reg[9] + 256 * reg[10]
         /\ data'[2] = reg[11] + 256 * reg[12]
         /\ data'[3] = reg[13] + 256 * reg[14]
         /\ \E k \in 1..MaxSample : data' = Sample(k)]_vars

\* Read(ISL29125_RGB) returned true and the buffer holds 0x1111, 0x2222, 0x3333.
C5_Witness ==
    /\ last.op = "Read" /\ last.arg = ISL29125_RGB /\ last.ret = TRUE
    /\ data = <<4369, 8738, 13107>>

\* C6: for every selector, Read returns true only when the status register's
\* conversion-complete bit is set, and always when it is set and the call's
\* bus transactions succeed; whenever it returns false it leaves every slot
\* of the caller's buffer unchanged.
C6_ReadValidity ==
    [][last'.op = "Read" =>
         /\ (last'.ret = TRUE => ConvDone(reg))
         /\ (last'.fail = 0 => (last'.ret = ConvDone(reg)))
         /\ (~ConvDone(reg) => last'.ret = FALSE)
         /\ (last'.ret = FALSE => data' = data)]_vars

\* Read returned false for want of a new conversion while the buffer holds
\* an older sample than the device's registers.
C6_Witness ==
    /\ last.op = "Read" /\ last.ret = FALSE /\ last.fail = 0
    /\ ~ConvDone(reg)
    /\ data = Sample(1)
    /\ Word(reg[GREEN_L], reg[GREEN_L + 1]) = Sample(2)[1]

\* C7: Run() on an object constructed without an irqsync pin (mode none) or
\* with pin and callback (mode interrupt) returns false and issues no bus
\* transaction; constructed with the pin alone (sync) it issues exactly one
\* command, returns whether the transport accepted it, and on success leaves
\* the conversion pending (it does not wait for it).
C7_Run ==
    last.op = "Run" =>
        IF irqsync = NC \/ fptr # NULL
        THEN last.ret = FALSE /\ last.rd = 0 /\ last.wr = 0
        ELSE /\ last.rd = 0 /\ last.wr = 1
             /\ last.ret = (last.fail = 0)
             /\ last.ret = TRUE => ~ConvDone(reg)

\* Run() succeeded in sync mode.
C7_Witness ==
    /\ last.op = "Run" /\ last.ret = TRUE /\ last.wr = 1
    /\ irqsync # NC /\ fptr = NULL

\* C8: IRcomp(v), v # 0xff, is accepted exactly for v in 0..63 or 128..191;
\* an accepted v is stored with bit 7 as the mode bit and bits 5:0 as the
\* magnitude, returned, and returned by a following get; a rejected v
\* returns 0xff (bus transactions succeeding).
C8_IRcomp ==
    [][/\ (last'.op = "IRcomp" /\ last'.arg # NoChange /\ last'.fail = 0 =>
             IF last'.arg \in (0..63) \cup (128..191)
             THEN /\ last'.ret = last'.arg
                  /\ Bit(reg'[CONFIG2], 7) = Bit(last'.arg, 7)
                  /\ reg'[CONFIG2] % 64 = last'.arg % 64
             ELSE /\ last'.ret = 255
                  /\ reg' = reg)
       /\ (/\ last.op = "IRcomp" /\ last.arg # NoChange /\ last.ret = last.arg
           /\ last'.op = "IRcomp" /\ last'.arg = NoChange /\ last'.fail = 0
           => last'.ret = last.arg)]_vars

\* IRcomp(191) was accepted and stored.
C8_Witness ==
    /\ last.op = "IRcomp" /\ last.arg = 191 /\ last.ret = 191
    /\ reg[CONFIG2] = 191

\* C9: a threshold write returns the value it wrote, and a threshold read
\* returns exactly the value last written to that threshold, whatever was
\* written to the other one before or after.
C9_Threshold ==
    last.op = "Threshold" /\ last.fail = 0 =>
        /\ last.arg \in {ISL29125_LTH_W, ISL29125_HTH_W} => last.ret = last.arg2
        /\ last.arg = ISL29125_LTH_R /\ written[1] # -1 => last.ret = written[1]
        /\ last.arg = ISL29125_HTH_R /\ written[2] # -1 => last.ret = written[2]

\* The high threshold reads back 0x8000 with 0x0100 in the low one.
C9_Witness ==
    /\ last.op = "Threshold" /\ last.arg = ISL29125_HTH_R /\ last.ret = 32768
    /\ written = <<256, 32768>>

\* The trigger mode the constructor's arguments select.
C10_Mode ==
    IF irqsync # NC /\ fptr # NULL THEN 1
    ELSE IF irqsync # NC THEN 2
    ELSE 0

\* C10: the trigger mode is interrupt (1) when both the irqsync pin and the
\* callback are supplied, sync (2) with the pin alone, none (0) otherwise,
\* and no step of the driver changes it.
C10_ModeFixed ==
    /\ [](ismode = C10_Mode)
    /\ [][ismode' = ismode /\ irqsync' = irqsync /\ fptr' = fptr]_vars

\* In sync mode, after settings were written and Run() started a conversion.
C10_Witness ==
    /\ ismode = 2
    /\ last.op = "Run" /\ last.ret = TRUE
    /\ reg[CONFIG1] = ISL29125_RGB
    /\ written # <<-1, -1>>

C12_ReadOnly ==
    [][\/ IsGetCall(last')
       \/ last'.op = "Threshold" /\ last'.arg \in {2, 3}
       \/ last'.op = "WhoAmI"
       => /\ last'.wr = 0
          /\ \A a \in CONFIG1..(HTH_L + 1) : reg'[a] = reg[a]]_vars

\* The low threshold was read, with 0x0100 as thres argument, and is 0x8000.
C12_Witness ==
    /\ last.op = "Threshold" /\ last.arg = ISL29125_LTH_R /\ last.arg2 = 256
    /\ last.ret = 32768 /\ last.wr = 0
    /\ reg[CONFIG1] # 0

\* The statements of updateRGB that use the sensor or write a characteristic.
Sampling == {"Read", "Reading", "updateRed", "updateGreen", "updateBlue"}
Publishes == {"updateRed", "updateGreen", "updateBlue"}

\* C13: the ticker callback only sets sensorFlag: it leaves the device, the
\* buffer, the bus and everything else of the application alone; every bus
\* transaction of the sensor is made by the main thread inside Read, so at
\* most one bus transaction is in progress at any time, whenever the ticker
\* fires.
C13_IsrOffBus ==
    /\ [](bus <= 1 /\ (bus = 1 => pc = "Reading"))
    /\ [][/\ (last'.op = "updateMeasurments" =>
                /\ sensorFlag'
                /\ UNCHANGED <<reg, data, bus, pc, initFlag, bleInit, attached,
                               connected, advertising, data_present, red, green, blue>>)
          /\ (last'.rd + last'.wr > 0 => pc = "Reading" /\ bus = 1 /\ bus' = 0)]_vars

\* The ticker fired while the main thread was on the bus inside Read.
C13_Witness ==
    /\ pc = "Reading" /\ bus = 1
    /\ last.op = "updateMeasurments"
    /\ sensorFlag

\* C14: a Read of all three channels that reports new data stores the
\* device's Green, Red and Blue registers in slots 0, 1, 2, and updateRGB
\* then publishes slot 1 as red, slot 0 as green and slot 2 as blue: each
\* characteristic holds the channel of its own colour, of one and the same
\* sample.
C14_Relabel ==
    /\ [](last.op = "updateBlue" /\ data_present =>
            /\ red = data[2] /\ green = data[1] /\ blue = data[3]
            /\ \E k \in 1..MaxSample : <<green, red, blue>> = Sample(k))
    /\ [][last'.op = "Read" /\ last'.ret = TRUE =>
            /\ data'[1] = Word(reg[GREEN_L], reg[GREEN_L + 1])
            /\ data'[2] = Word(reg[RED_L], reg[RED_L + 1])
            /\ data'[3] = Word(reg[BLUE_L], reg[BLUE_L + 1])]_vars

\* The second sample was published: red 0x4444, green 0x2222, blue 0x6666.
C14_Witness ==
    /\ last.op = "updateBlue" /\ data_present
    /\ red = 17476 /\ green = 8738 /\ blue = 26214

\* C15: the application does not republish stale data: a characteristic is
\* written only after a Read that returned true; when Read returned false,
\* none of the red, green and blue characteristics is written.
C15_NoStalePublish ==
    [][last'.op \in Publishes => data_present]_vars

\* C16: with the main loop scheduled fairly and the ticker firing every
\* period, every firing of the ticker is eventually followed by an
\* invocation of updateRGB that starts after it (unserved is true from a
\* firing until the next invocation of updateRGB).
C16_FiringServed ==
    unserved ~> ~unserved

\* The ticker fired between the test of sensorFlag and its clearing: the
\* flag is down again and no updateRGB was invoked since that firing.
C16_Witness ==
    /\ unserved /\ ~sensorFlag
    /\ last.op = "main_clear"

\* C17: updateRGB reads the sensor and writes the characteristics only while
\* _connected is true, and the ticker (the only thing that raises
\* sensorFlag) is attached only after on_init_complete reported no error.
C17_OnlyConnected ==
    /\ pc \in Sampling => connected
    /\ attached => bleInit = "ok"
    /\ sensorFlag => attached

\* updateRGB found the client gone and skipped the sample, after an earlier
\* sample had been published.
C17_Witness ==
    /\ last.op = "updateRGB" /\ pc = "clear"
    /\ ~connected
    /\ red # NoValue

\* C18: _connected is false initially, becomes true only in a connection-
\* complete event whose status is BLE_ERROR_NONE (any other status leaves it
\* as it is), and every disconnection-complete event sets it to false and
\* requests advertising to start.
C18_ConnectedTracksLink ==
    /\ connected = FALSE
    /\ [][/\ (~connected /\ connected' =>
                last'.op = "onConnectionComplete" /\ last'.arg = 0)
          /\ (last'.op = "onConnectionComplete" =>
                connected' = (connected \/ last'.arg = 0))
          /\ (last'.op = "onDisconnectionComplete" =>
                ~connected' /\ advertising')
          /\ (connected /\ ~connected' => last'.op = "onDisconnectionComplete")]_vars

\* A client that had connected and was served has disconnected.
C18_Witness ==
    /\ last.op = "onDisconnectionComplete"
    /\ ~connected /\ advertising
    /\ blue # NoValue

====
